---------------------------- MODULE Spec2Model ----------------------------
(***************************************************************************)
(* Behaviour layer of the Surya Plaza Hotel site.                          *)
(*                                                                         *)
(* Three versions of the page script are modelled, selected by `variant`: *)
(*   "main"    - main.js   (src/unnamed/part_000)                          *)
(*   "script3" - script.js version 3.0 (src/assets/js/script.js 1-235)     *)
(*   "script2" - script.js version 2.1 (src/assets/js/script.js 236-512)   *)
(*                                                                         *)
(* Every component reads the DOM at load and attaches its own listeners;   *)
(* no component reads another one's state, so each component has its own   *)
(* specification (SpecTheme, SpecGallery, SpecSpy, SpecReveal, SpecThumbs, *)
(* SpecForm, SpecHeader) over the same variables; SpecInit follows init()  *)
(* through the components.  An action is one run of one event handler.     *)
(***************************************************************************)
EXTENDS Integers, Sequences, FiniteSets, TLC

VARIABLES
    variant,          \* which version of the script the page loads
    lastEvent,        \* label of the handler that ran last
    threw,            \* the handler that ran last ended in an uncaught TypeError
    \* ---- theme ----
    hasToggle,        \* document.getElementById('theme-toggle') is not null
    stored,           \* localStorage 'theme' ("none" = key absent)
    prefersDark,      \* matchMedia('(prefers-color-scheme: dark)').matches
    dataTheme,        \* data-theme attribute of <html> ("none" = not set)
    storedAtLoad,     \* history: localStorage 'theme' when the page was loaded
    clickedSinceLoad, \* history: the theme toggle was clicked since the load
    themeBefore,      \* history: data-theme before the handler that ran last
    \* ---- gallery filter + lightbox ----
    itemCat,          \* data-category of each .gallery-item, in document order
    display,          \* style.display of each .gallery-item ("" = never set)
    filterActive,     \* data-filter of the .filter-btn elements carrying 'active'
    pendingShow,      \* main.js: items of the pending 1 ms show timers, oldest first
    currentIndex,     \* let currentIndex
    allVisibleItems,  \* script.js: let allVisibleItems (items by document position)
    lightboxActive,   \* #lightbox carries 'active'
    lightboxImg,      \* item whose href is #lightbox-img src (0 = as in the markup)
    lightboxCaption,  \* item whose caption is #lightbox-caption text (0 = markup)
    lastFilter,       \* history: data-filter of the last filter click ("none" yet)
    lastCmd,          \* history: lightbox command the last handler executed
    clickedItem,      \* history: the item the last handler was a click on (0 = none)
    runStart,         \* history: currentIndex before the current run of next (prev)
    runLen,           \* history: length of the current run of next (prev) commands
    \* ---- scroll-spy navigation ----
    spyActive,        \* the nav links carrying 'active'
    spyBatch,         \* history: the entries of the last intersection callback
    lastSpySection,   \* history: the section of the last intersecting entry processed (0: none)
    \* ---- reveal on scroll ----
    fadeObserved,     \* elements the reveal observer still observes
    isVisible,        \* elements carrying 'is-visible'
    addCalls,         \* history: classList.add('is-visible') calls per element
    gridObserved,     \* script.js: .grid-stagger containers still observed
    gridRevealed,     \* script.js: containers whose children were revealed
    gridCalls,        \* history: reveals of its children per container
    revealBatch,      \* history: targets reported intersecting in the last callback
    \* ---- room thumbnails (main.js) ----
    imgPresent,       \* galleries whose main image element (data-target) exists
    fullJpgGiven,     \* the thumbnails carry data-full-jpg
    hasSources,       \* the <picture> of a main image has its two <source> elements
    thumbActive,      \* thumbnails carrying 'active'
    mainImage,        \* per gallery: sources and style.opacity of the main image
    pendingFade,      \* thumbnails of the pending 200 ms timers, oldest first
    lastThumb,        \* history: thumbnail of the last mousedown / fired timer
    fadeOverlap,      \* history: a thumbnail was activated while a timer of its gallery was pending
    \* ---- contact form (main.js) ----
    submitDisabled,   \* submitBtn.disabled
    submitLoading,    \* submitBtn carries 'loading'
    btnText,          \* btnText.textContent
    successPending,   \* submissions whose 2 s timer is pending, oldest first
    revertPending,    \* submissions whose 3 s timer is pending, oldest first
    submits,          \* history: number of submit events so far
    formFields,       \* the input fields of the form holding user input
    \* ---- initialization ----
    present,          \* the expected DOM elements the page contains
    initDone,         \* number of components init() has called so far
    wired,            \* components that attached their listeners / observers
    initThrew,        \* the component whose initializer raised ("none" so far)
    \* ---- header ----
    scrollY,          \* window.scrollY
    scrollEventDue,   \* the position changed and its scroll event is not yet dispatched
    isTicking,        \* the isTicking flag of initGlassmorphismHeader
    pendingFrames,    \* requestAnimationFrame callbacks waiting for the next frame
    headerScrolled,   \* the header carries the class 'scrolled'
    lastRead          \* history: window.scrollY as read by the last class update

themeVars == <<hasToggle, stored, prefersDark, dataTheme, storedAtLoad, clickedSinceLoad, themeBefore>>
galleryVars == <<itemCat, display, filterActive, pendingShow, currentIndex, allVisibleItems,
                 lightboxActive, lightboxImg, lightboxCaption, lastFilter, lastCmd,
                 clickedItem, runStart, runLen>>
spyVars == <<spyActive, spyBatch, lastSpySection>>
revealVars == <<fadeObserved, isVisible, addCalls, gridObserved, gridRevealed, gridCalls, revealBatch>>
thumbVars == <<imgPresent, fullJpgGiven, hasSources, thumbActive, mainImage, pendingFade, lastThumb,
               fadeOverlap>>
formVars == <<submitDisabled, submitLoading, btnText, successPending, revertPending, submits,
              formFields>>
initVars == <<present, initDone, wired, initThrew>>
headerVars == <<scrollY, scrollEventDue, isTicking, pendingFrames, headerScrolled, lastRead>>
vars == <<variant, lastEvent, threw, themeVars, galleryVars, spyVars, revealVars,
          thumbVars, formVars, initVars, headerVars>>

Variants == {"main", "script3", "script2"}
NoTheme == "none"
Themes == {"light", "dark"}

(***************************************************************************)
(* THEME                                                                   *)
(***************************************************************************)
OsTheme(matches) == IF matches THEN "dark" ELSE "light"

\* getInitialTheme with the stored value ignored
getInitialTheme_OsOnly(savedTheme, matches) == OsTheme(matches)

\* main.js getInitialTheme
getInitialTheme(savedTheme, matches) ==
    IF savedTheme # NoTheme THEN savedTheme ELSE OsTheme(matches)

\* script.js initThemeToggle, the savedTheme / prefersDark branch
scriptInitialTheme(savedTheme, matches) ==
    IF savedTheme = "dark" \/ (savedTheme = NoTheme /\ matches) THEN "dark" ELSE "light"

\* main.js applyTheme: the attribute and the stored value it leaves
applyTheme(theme) == [attr |-> theme, saved |-> theme]

\* newTheme that always picks 'dark'
newTheme_AlwaysDark(currentTheme) == "dark"

\* newTheme cycling through a third value
newTheme_ThreeWay(currentTheme) ==
    IF currentTheme = "dark" THEN "light"
    ELSE IF currentTheme = "light" THEN "system" ELSE "dark"

\* the click listeners' newTheme
newTheme(currentTheme) == IF currentTheme = "dark" THEN "light" ELSE "dark"

\* the OS-preference listener without its guard
osListenerApplies_Unguarded(savedTheme) == TRUE

\* main.js: the guard of the OS-preference 'change' listener
osListenerApplies(savedTheme) == savedTheme = NoTheme

\* initThemeManager (main.js) / initThemeToggle (script.js) on a fresh document
ThemeLoaded(v, toggle, savedTheme, matches) ==
    IF v = "main"
    THEN IF toggle
         THEN applyTheme(getInitialTheme(savedTheme, matches))
         ELSE [attr |-> NoTheme, saved |-> savedTheme]
    ELSE [attr |-> scriptInitialTheme(savedTheme, matches), saved |-> savedTheme]

ThemeInitIn(v, toggle, savedTheme, matches) ==
    /\ hasToggle = toggle
    /\ prefersDark = matches
    /\ storedAtLoad = savedTheme
    /\ clickedSinceLoad = FALSE
    /\ themeBefore = NoTheme
    /\ dataTheme = ThemeLoaded(v, toggle, savedTheme, matches).attr
    /\ stored = ThemeLoaded(v, toggle, savedTheme, matches).saved

\* a navigation to (or reload of) a page of the site: fresh document, same storage
ThemePageLoad ==
    /\ \E toggle \in BOOLEAN :
          /\ hasToggle' = toggle
          /\ dataTheme' = ThemeLoaded(variant, toggle, stored, prefersDark).attr
          /\ stored' = ThemeLoaded(variant, toggle, stored, prefersDark).saved
    /\ storedAtLoad' = stored
    /\ clickedSinceLoad' = FALSE
    /\ themeBefore' = NoTheme
    /\ lastEvent' = "load"
    /\ UNCHANGED <<variant, headerVars, threw, prefersDark, galleryVars, spyVars, revealVars, thumbVars, formVars, initVars>>

\* click on #theme-toggle
ThemeToggleClick ==
    /\ hasToggle
    /\ dataTheme' = newTheme(dataTheme)
    /\ stored' = newTheme(dataTheme)
    /\ clickedSinceLoad' = TRUE
    /\ themeBefore' = dataTheme
    /\ lastEvent' = "themeClick"
    /\ UNCHANGED <<variant, headerVars, threw, hasToggle, prefersDark, storedAtLoad, galleryVars, spyVars, revealVars, thumbVars, formVars, initVars>>

\* the OS colour scheme changes; main.js listens for it, script.js does not
OsPreferenceChange ==
    /\ prefersDark' = ~prefersDark
    /\ IF variant = "main" /\ hasToggle /\ osListenerApplies(stored)
       THEN /\ dataTheme' = applyTheme(OsTheme(prefersDark')).attr
            /\ stored' = applyTheme(OsTheme(prefersDark')).saved
       ELSE UNCHANGED <<dataTheme, stored>>
    /\ themeBefore' = dataTheme
    /\ lastEvent' = "osChange"
    /\ UNCHANGED <<variant, headerVars, threw, hasToggle, storedAtLoad, clickedSinceLoad, galleryVars, spyVars, revealVars, thumbVars, formVars, initVars>>

\* the 'theme' key is removed from outside the script (site data cleared)
StorageCleared ==
    /\ stored # NoTheme
    /\ stored' = NoTheme
    /\ themeBefore' = dataTheme
    /\ lastEvent' = "storageCleared"
    /\ UNCHANGED <<variant, headerVars, threw, hasToggle, prefersDark, dataTheme, storedAtLoad, clickedSinceLoad, galleryVars, spyVars, revealVars, thumbVars, formVars, initVars>>

(***************************************************************************)
(* GALLERY FILTER + LIGHTBOX                                               *)
(***************************************************************************)
MaxItems == 3       \* at most this many .gallery-item elements on the page
MaxPending == 3     \* at most this many show timers pending at once

Categories == {"rooms", "dining"}
FilterTags == {"all"} \cup Categories
NaN == -1000        \* the result of a remainder by zero
Undefined == 0      \* the result of reading an array past its ends

\* Array.from(galleryItems): the items by document position
Ids(n) == [k \in 1..n |-> k]

\* the filter test of the filter click listeners
Matches(filter, category) == filter = "all" \/ category = filter

\* script.js filter click: the display every item is left with
filterDisplay(filter, cats) ==
    [k \in 1..Len(cats) |-> IF Matches(filter, cats[k]) THEN "block" ELSE "none"]

\* main.js filter click: every item is hidden ...
hideAll(cats) == [k \in 1..Len(cats) |-> "none"]

\* ... and a 1 ms timer is set for each matching one, in document order
matchingItems(filter, cats) ==
    SelectSeq(Ids(Len(cats)), LAMBDA k : Matches(filter, cats[k]))

\* script.js updateVisibleItems
updateVisibleItems(disp) == SelectSeq(Ids(Len(disp)), LAMBDA k : disp[k] # "none")

\* Array.prototype.indexOf, 0-based, -1 when absent
indexOf(list, item) ==
    IF \E i \in 1..Len(list) : list[i] = item
    THEN (CHOOSE i \in 1..Len(list) : list[i] = item) - 1
    ELSE -1

\* list[i] for a 0-based i
itemAt(list, i) == IF i \in 0..(Len(list) - 1) THEN list[i + 1] ELSE Undefined

\* a + b and a % n on JavaScript numbers
JsAdd(a, b) == IF a = NaN THEN NaN ELSE a + b
JsRem(a, n) ==
    IF a = NaN \/ n = 0 THEN NaN
    ELSE IF a >= 0 THEN a % n ELSE 0 - ((0 - a) % n)

\* the index showNext passes on, clamped at the end instead of wrapped
nextIndex_Clamped(i, n) == IF JsAdd(i, 1) >= n THEN n - 1 ELSE JsAdd(i, 1)

\* the index showNext / showPrev pass on
nextIndex(i, n) == JsRem(JsAdd(i, 1), n)
prevIndex(i, n) == JsRem(JsAdd(JsAdd(i, -1), n), n)

\* images (main.js) / allVisibleItems (script.js): the list navigation runs over
navList(v, list, n) == IF v = "main" THEN Ids(n) ELSE list

\* the lightbox state a handler starts from
LB == [currentIndex |-> currentIndex, allVisibleItems |-> allVisibleItems,
       img |-> lightboxImg, caption |-> lightboxCaption,
       active |-> lightboxActive, threw |-> FALSE]

\* openLightbox(index); reading .href (.src) of an undefined item throws
openLightbox(v, lb, disp, index) ==
    LET list == CASE v = "main" -> Ids(Len(disp))
                  [] v = "script2" -> updateVisibleItems(disp)
                  [] OTHER -> lb.allVisibleItems
        kept == IF v = "main" THEN lb.allVisibleItems ELSE list
        item == itemAt(list, index)
    IN  IF item = Undefined
        THEN [lb EXCEPT !.currentIndex = index, !.allVisibleItems = kept, !.threw = TRUE]
        ELSE [currentIndex |-> index, allVisibleItems |-> kept, img |-> item,
              caption |-> item, active |-> TRUE, threw |-> FALSE]

showNext(v, lb, disp) ==
    openLightbox(v, lb, disp,
        nextIndex(lb.currentIndex, Len(navList(v, lb.allVisibleItems, Len(disp)))))

showPrev(v, lb, disp) ==
    openLightbox(v, lb, disp,
        prevIndex(lb.currentIndex, Len(navList(v, lb.allVisibleItems, Len(disp)))))

closeLightbox(lb) == [lb EXCEPT !.active = FALSE]

\* the click listener passing the document position of the item to openLightbox
itemClicked_DocumentIndex(v, lb, disp, k) ==
    openLightbox(v, [lb EXCEPT !.allVisibleItems =
                        IF v = "main" THEN @ ELSE updateVisibleItems(disp)], disp, k - 1)

\* the click listener of a gallery item
itemClicked(v, lb, disp, k) ==
    IF v = "main"
    THEN openLightbox(v, lb, disp, k - 1)
    ELSE LET list == updateVisibleItems(disp)
         IN  openLightbox(v, [lb EXCEPT !.allVisibleItems = list], disp, indexOf(list, k))

\* the state a lightbox handler leaves, and the bookkeeping of runs of next / prev
LightboxStep(r, cmd) ==
    /\ currentIndex' = r.currentIndex
    /\ allVisibleItems' = r.allVisibleItems
    /\ lightboxImg' = r.img
    /\ lightboxCaption' = r.caption
    /\ lightboxActive' = r.active
    /\ threw' = r.threw
    /\ lastCmd' = cmd
    /\ IF /\ cmd \in {"next", "prev"}
          /\ Len(navList(variant, r.allVisibleItems, Len(display)))
               = Len(navList(variant, allVisibleItems, Len(display)))
       THEN IF lastCmd = cmd /\ runLen > 0
            THEN /\ runLen' = (IF runLen > MaxItems THEN runLen ELSE runLen + 1)
                 /\ runStart' = runStart
            ELSE /\ runLen' = 1
                 /\ runStart' = currentIndex
       ELSE /\ runLen' = 0
            /\ runStart' = 0

\* click on a .filter-btn
FilterClick(filter) ==
    /\ filterActive' = {filter}
    /\ lastFilter' = filter
    /\ IF variant = "main"
       THEN /\ Len(pendingShow) + Len(matchingItems(filter, itemCat)) <= MaxPending
            /\ display' = hideAll(itemCat)
            /\ pendingShow' = pendingShow \o matchingItems(filter, itemCat)
       ELSE /\ display' = filterDisplay(filter, itemCat)
            /\ UNCHANGED pendingShow
    /\ LightboxStep(LB, "none")
    /\ clickedItem' = 0
    /\ lastEvent' = "filterClick"
    /\ UNCHANGED <<variant, headerVars, themeVars, spyVars, revealVars, thumbVars, formVars, initVars, itemCat>>

\* main.js: the oldest pending 1 ms timer fires
ShowTimer ==
    /\ pendingShow # << >>
    /\ display' = [display EXCEPT ![Head(pendingShow)] = "block"]
    /\ pendingShow' = Tail(pendingShow)
    /\ LightboxStep(LB, "none")
    /\ clickedItem' = 0
    /\ lastEvent' = "showTimer"
    /\ UNCHANGED <<variant, headerVars, themeVars, spyVars, revealVars, thumbVars, formVars, initVars, itemCat, filterActive, lastFilter>>

\* click on a gallery item that is displayed
ItemClick(k) ==
    /\ k \in 1..Len(itemCat)
    /\ display[k] # "none"
    /\ LightboxStep(itemClicked(variant, LB, display, k), "open")
    /\ clickedItem' = k
    /\ lastEvent' = "itemClick"
    /\ UNCHANGED <<variant, headerVars, themeVars, spyVars, revealVars, thumbVars, formVars, initVars, itemCat, display, filterActive, pendingShow, lastFilter>>

\* click on .lightbox-next
NextClick ==
    /\ LightboxStep(showNext(variant, LB, display), "next")
    /\ clickedItem' = 0
    /\ lastEvent' = "nextClick"
    /\ UNCHANGED <<variant, headerVars, themeVars, spyVars, revealVars, thumbVars, formVars, initVars, itemCat, display, filterActive, pendingShow, lastFilter>>

\* click on .lightbox-prev
PrevClick ==
    /\ LightboxStep(showPrev(variant, LB, display), "prev")
    /\ clickedItem' = 0
    /\ lastEvent' = "prevClick"
    /\ UNCHANGED <<variant, headerVars, themeVars, spyVars, revealVars, thumbVars, formVars, initVars, itemCat, display, filterActive, pendingShow, lastFilter>>

\* click on .lightbox-close
CloseClick ==
    /\ LightboxStep(closeLightbox(LB), "close")
    /\ clickedItem' = 0
    /\ lastEvent' = "closeClick"
    /\ UNCHANGED <<variant, headerVars, themeVars, spyVars, revealVars, thumbVars, formVars, initVars, itemCat, display, filterActive, pendingShow, lastFilter>>

\* click on the lightbox backdrop (e.target === lightbox)
BackdropClick ==
    /\ LightboxStep(closeLightbox(LB), "close")
    /\ clickedItem' = 0
    /\ lastEvent' = "backdropClick"
    /\ UNCHANGED <<variant, headerVars, themeVars, spyVars, revealVars, thumbVars, formVars, initVars, itemCat, display, filterActive, pendingShow, lastFilter>>

\* the keydown listener without its guard
keydownActs_Always(active) == TRUE

\* the guard of the keydown listener: lightbox.classList.contains('active')
keydownActs(active) == active

\* keydown on the document
KeyDown(key) ==
    /\ IF ~keydownActs(lightboxActive) THEN LightboxStep(LB, "none")
       ELSE CASE key = "Escape" -> LightboxStep(closeLightbox(LB), "close")
              [] key = "ArrowLeft" -> LightboxStep(showPrev(variant, LB, display), "prev")
              [] key = "ArrowRight" -> LightboxStep(showNext(variant, LB, display), "next")
    /\ clickedItem' = 0
    /\ lastEvent' = key
    /\ UNCHANGED <<variant, headerVars, themeVars, spyVars, revealVars, thumbVars, formVars, initVars, itemCat, display, filterActive, pendingShow, lastFilter>>

Keys == {"Escape", "ArrowLeft", "ArrowRight"}

\* initGalleryPage / initGallery on a page with n gallery items
GalleryInitIn(cats) ==
    /\ itemCat = cats
    /\ display = [k \in 1..Len(cats) |-> ""]
    /\ filterActive \in {{}, {"all"}}
    /\ pendingShow = << >>
    /\ currentIndex = 0
    /\ allVisibleItems = << >>
    /\ lightboxActive = FALSE
    /\ lightboxImg = 0
    /\ lightboxCaption = 0
    /\ lastFilter = "none"
    /\ lastCmd = "none"
    /\ clickedItem = 0
    /\ runStart = 0
    /\ runLen = 0

\* a page without the gallery markup: both scripts return before wiring anything
GalleryAbsent ==
    /\ itemCat = << >>
    /\ display = << >>
    /\ filterActive = {}
    /\ pendingShow = << >>
    /\ currentIndex = 0
    /\ allVisibleItems = << >>
    /\ lightboxActive = FALSE
    /\ lightboxImg = 0
    /\ lightboxCaption = 0
    /\ lastFilter = "none"
    /\ lastCmd = "none"
    /\ clickedItem = 0
    /\ runStart = 0
    /\ runLen = 0

\* a page without the theme toggle, nothing stored, OS preference light
ThemeQuiet == ThemeInitIn(variant, FALSE, NoTheme, FALSE)

(***************************************************************************)
(* SCROLL-SPY NAVIGATION                                                   *)
(***************************************************************************)
NumSections == 3    \* sections S1..Sn, each with its nav link L1..Ln

Sections == 1..NumSections
Links == 1..NumSections
\* link Lk has href '#' + id of section Sk
linkHref == [l \in Links |-> l]

\* the batches an observer may deliver: distinct targets, in any order
Batches(targets) ==
    {b \in UNION {[1..n -> targets \X BOOLEAN] : n \in 1..Cardinality(targets)} :
        \A i, j \in 1..Len(b) : i # j => b[i][1] # b[j][1]}

Target(entry) == entry[1]
IsIntersecting(entry) == entry[2]

\* the links loop that only ever adds the class
spyToggle_AddOnly(active, id) == active \cup {l \in Links : linkHref[l] = id}

\* main.js, script.js 3.0: link.classList.toggle('active', href === '#' + id) on every link
spyToggle(active, id) ==
    (active \ {l \in Links : linkHref[l] # id}) \cup {l \in Links : linkHref[l] = id}

\* script.js 2.1: classList.remove('active') on every link, add on the matching one
spyRemoveAdd(active, id) == (active \ Links) \cup {l \in Links : linkHref[l] = id}

\* the scroll-spy callback taking the class off the link of a section that
\* stopped intersecting
RECURSIVE spyCallback_ClearsOnLeave(_, _, _)
spyCallback_ClearsOnLeave(v, active, entries) ==
    IF entries = << >> THEN active
    ELSE LET entry == Head(entries)
             after == IF ~IsIntersecting(entry)
                      THEN active \ {l \in Links : linkHref[l] = Target(entry)}
                      ELSE spyToggle(active, Target(entry))
         IN  spyCallback_ClearsOnLeave(v, after, Tail(entries))

\* the scroll-spy callback stopping at the first intersecting entry
RECURSIVE spyCallback_FirstWins(_, _, _)
spyCallback_FirstWins(v, active, entries) ==
    IF entries = << >> THEN active
    ELSE IF IsIntersecting(Head(entries))
         THEN {l \in Links : linkHref[l] = Target(Head(entries))}
         ELSE spyCallback_FirstWins(v, active, Tail(entries))

\* entries.forEach of the scroll-spy observers
RECURSIVE spyCallback(_, _, _)
spyCallback(v, active, entries) ==
    IF entries = << >> THEN active
    ELSE LET entry == Head(entries)
             after == IF ~IsIntersecting(entry) THEN active
                      ELSE IF v = "script2" THEN spyRemoveAdd(active, Target(entry))
                      ELSE spyToggle(active, Target(entry))
         IN  spyCallback(v, after, Tail(entries))

\* the observer delivers a batch of entries
SpyIntersection(entries) ==
    /\ spyActive' = spyCallback(variant, spyActive, entries)
    /\ spyBatch' = entries
    /\ lastSpySection' =
          IF \E i \in 1..Len(entries) : IsIntersecting(entries[i])
          THEN Target(entries[CHOOSE i \in 1..Len(entries) :
                                 /\ IsIntersecting(entries[i])
                                 /\ \A j \in (i + 1)..Len(entries) : ~IsIntersecting(entries[j])])
          ELSE lastSpySection
    /\ lastEvent' = "spyCallback"
    /\ UNCHANGED <<variant, headerVars, threw, themeVars, galleryVars, revealVars, thumbVars, formVars, initVars>>

\* a page with the sticky nav: the markup has no link or the first link active
SpyInit ==
    /\ spyActive \in {{}, {1}}
    /\ spyBatch = << >>
    /\ lastSpySection = 0

SpyAbsent ==
    /\ spyActive = {}
    /\ spyBatch = << >>
    /\ lastSpySection = 0

(***************************************************************************)
(* REVEAL ON SCROLL                                                        *)
(***************************************************************************)
NumFade == 3        \* animated / .fade-in elements on the page
NumGrids == 2       \* .grid-stagger containers on the page (script.js)

FadeElements == 1..NumFade
Grids == 1..NumGrids

\* one entry of the reveal callback with the unobserve call left out
revealEntry_KeepsObserving(st, entry) ==
    IF IsIntersecting(entry)
    THEN [st EXCEPT !.marked = st.marked \cup {Target(entry)},
                    !.calls[Target(entry)] = IF @ < 2 THEN @ + 1 ELSE @]
    ELSE st

\* one entry of a reveal callback: mark, then observer.unobserve(entry.target)
revealEntry(st, entry) ==
    IF IsIntersecting(entry)
    THEN [observed |-> st.observed \ {Target(entry)},
          marked |-> st.marked \cup {Target(entry)},
          calls |-> [st.calls EXCEPT ![Target(entry)] = IF @ < 2 THEN @ + 1 ELSE @]]
    ELSE st

\* entries.forEach of observerCallback / fadeInObserver / staggerObserver
RECURSIVE revealCallback(_, _)
revealCallback(st, entries) ==
    IF entries = << >> THEN st
    ELSE revealCallback(revealEntry(st, Head(entries)), Tail(entries))

IntersectingTargets(entries) ==
    {Target(entries[i]) : i \in {j \in 1..Len(entries) : IsIntersecting(entries[j])}}

\* observerCallback (main.js) / fadeInObserver (script.js) gets a batch
FadeIntersection(entries) ==
    /\ LET st == revealCallback([observed |-> fadeObserved, marked |-> isVisible,
                                 calls |-> addCalls], entries)
       IN  /\ fadeObserved' = st.observed
           /\ isVisible' = st.marked
           /\ addCalls' = st.calls
    /\ revealBatch' = IntersectingTargets(entries)
    /\ lastEvent' = "fadeCallback"
    /\ UNCHANGED <<variant, headerVars, threw, themeVars, galleryVars, spyVars, thumbVars, formVars, initVars,
                   gridObserved, gridRevealed, gridCalls>>

\* staggerObserver (script.js) gets a batch: the children of the container are revealed
GridIntersection(entries) ==
    /\ LET st == revealCallback([observed |-> gridObserved, marked |-> gridRevealed,
                                 calls |-> gridCalls], entries)
       IN  /\ gridObserved' = st.observed
           /\ gridRevealed' = st.marked
           /\ gridCalls' = st.calls
    /\ revealBatch' = IntersectingTargets(entries)
    /\ lastEvent' = "gridCallback"
    /\ UNCHANGED <<variant, headerVars, threw, themeVars, galleryVars, spyVars, thumbVars, formVars, initVars,
                   fadeObserved, isVisible, addCalls>>

\* initScrollObserver / initScrollAnimations: every element is observed
RevealInit ==
    /\ fadeObserved = FadeElements
    /\ isVisible = {}
    /\ addCalls = [e \in FadeElements |-> 0]
    /\ gridObserved = IF variant = "main" THEN {} ELSE Grids
    /\ gridRevealed = {}
    /\ gridCalls = [g \in Grids |-> 0]
    /\ revealBatch = {}

RevealAbsent ==
    /\ fadeObserved = {}
    /\ isVisible = {}
    /\ addCalls = [e \in FadeElements |-> 0]
    /\ gridObserved = {}
    /\ gridRevealed = {}
    /\ gridCalls = [g \in Grids |-> 0]
    /\ revealBatch = {}

(***************************************************************************)
(* ROOM THUMBNAILS (main.js)                                               *)
(***************************************************************************)
NumThumbs == 3      \* .thumbnail-item elements on the page
MaxFades == 3       \* at most this many 200 ms timers pending at once

Thumbs == 1..NumThumbs
\* two .gallery-thumbnails containers; the thumbnails alternate between them
\* and the data-target of a thumbnail is the main image of its gallery
Galleries == {1, 2}
GalleryOf(t) == IF t % 2 = 1 THEN 1 ELSE 2
ThumbsOf(g) == {t \in Thumbs : GalleryOf(t) = g}

\* the sources and opacity a main image has in the markup
MarkupImage == [webp |-> <<0, "markup">>, jpg |-> <<0, "markup">>,
                src |-> <<0, "markup">>, opacity |-> ""]

\* thumbImg.dataset.fullWebp
newWebp(t) == <<t, "full-webp">>

\* newJpg without the fallback to the webp name
newJpg_NoFallback(t, jpgGiven) == IF jpgGiven THEN <<t, "full-jpg">> ELSE <<0, "">>

\* thumbImg.dataset.fullJpg || newWebp.replace('.webp', '.jpg')
newJpg(t, jpgGiven) == IF jpgGiven THEN <<t, "full-jpg">> ELSE <<t, "full-webp as .jpg">>

\* the mousedown guard with the 'active' test left out
thumbActs_IgnoresActive(imagePresent, isActive) == imagePresent

\* the mousedown listener goes on unless (!mainImageEl || thumb is active)
thumbActs(imagePresent, isActive) == imagePresent /\ ~isActive

\* querySelector('.thumbnail-item.active') over the whole document
currentActive_DocumentWide(active, g) ==
    IF active = {} THEN {}
    ELSE {CHOOSE t \in active : \A u \in active : t <= u}

\* parentGallery.querySelector('.thumbnail-item.active'): the first active one
currentActive(active, g) ==
    IF active \cap ThumbsOf(g) = {} THEN {}
    ELSE {CHOOSE t \in active \cap ThumbsOf(g) : \A u \in active \cap ThumbsOf(g) : t <= u}

\* the 200 ms callback: sources swapped, opacity back to '1'
fadeIn(image, t, jpgGiven, sources) ==
    [webp |-> IF sources THEN newWebp(t) ELSE image.webp,
     jpg |-> IF sources THEN newJpg(t, jpgGiven) ELSE image.jpg,
     src |-> newJpg(t, jpgGiven),
     opacity |-> "1"]

\* mousedown on thumbnail t
ThumbMouseDown(t) ==
    /\ t \in Thumbs
    /\ IF thumbActs(GalleryOf(t) \in imgPresent, t \in thumbActive)
       THEN /\ Len(pendingFade) < MaxFades
            /\ mainImage' = [mainImage EXCEPT ![GalleryOf(t)].opacity = "0"]
            /\ pendingFade' = Append(pendingFade, t)
            /\ thumbActive' = (thumbActive \ currentActive(thumbActive, GalleryOf(t))) \cup {t}
            /\ fadeOverlap' = (fadeOverlap \/ \E i \in 1..Len(pendingFade) :
                                                 GalleryOf(pendingFade[i]) = GalleryOf(t))
       ELSE UNCHANGED <<mainImage, pendingFade, thumbActive, fadeOverlap>>
    /\ lastThumb' = t
    /\ lastEvent' = "thumbDown"
    /\ UNCHANGED <<variant, headerVars, threw, themeVars, galleryVars, spyVars, revealVars, formVars,
                   initVars, imgPresent, fullJpgGiven, hasSources>>

\* the timers firing newest first
firing_Newest(queue) == Len(queue)

\* the timers have the same delay (200 ms): they fire in the order in which
\* they were set
firing(queue) == 1

RemoveAt(queue, i) == SubSeq(queue, 1, i - 1) \o SubSeq(queue, i + 1, Len(queue))

\* the pending 200 ms timer that is due first fires
FadeTimer ==
    /\ pendingFade # << >>
    /\ LET t == pendingFade[firing(pendingFade)]
       IN  /\ mainImage' = [mainImage EXCEPT
                 ![GalleryOf(t)] = fadeIn(@, t, fullJpgGiven, hasSources)]
           /\ lastThumb' = t
    /\ pendingFade' = RemoveAt(pendingFade, firing(pendingFade))
    /\ lastEvent' = "fadeTimer"
    /\ UNCHANGED <<variant, headerVars, threw, themeVars, galleryVars, spyVars, revealVars, formVars,
                   initVars, imgPresent, fullJpgGiven, hasSources, thumbActive, fadeOverlap>>

\* initRoomGallery on a page whose galleries have at most one active thumbnail each
ThumbsInit ==
    /\ imgPresent \in SUBSET Galleries
    /\ fullJpgGiven \in BOOLEAN
    /\ hasSources \in BOOLEAN
    /\ thumbActive \in {a \in SUBSET Thumbs :
                           \A g \in Galleries : Cardinality(a \cap ThumbsOf(g)) <= 1}
    /\ mainImage = [g \in Galleries |-> MarkupImage]
    /\ pendingFade = << >>
    /\ lastThumb = 0
    /\ fadeOverlap = FALSE

\* a page without thumbnails: initRoomGallery returns at once
ThumbsAbsent ==
    /\ imgPresent = {}
    /\ fullJpgGiven = FALSE
    /\ hasSources = FALSE
    /\ thumbActive = {}
    /\ mainImage = [g \in Galleries |-> MarkupImage]
    /\ pendingFade = << >>
    /\ lastThumb = 0
    /\ fadeOverlap = FALSE

(***************************************************************************)
(* CONTACT FORM (main.js)                                                  *)
(***************************************************************************)
MaxSubmits == 3     \* at most this many submit events in a run
NumFields == 3      \* input fields of the form
Fields == 1..NumFields

MarkupLabel == "markup"
SuccessLabel == "Submitted Successfully!"
IdleLabel == "Submit Inquiry"

FormState == [disabled |-> submitDisabled, loading |-> submitLoading, text |-> btnText]

\* the submit listener, synchronous part
formSubmitted(st) == [st EXCEPT !.disabled = TRUE, !.loading = TRUE]

\* the 2 s callback leaving the 'loading' class on
formSucceeded_KeepsLoading(st) == [st EXCEPT !.disabled = FALSE, !.text = SuccessLabel]

\* the 2 s callback
formSucceeded(st) ==
    [st EXCEPT !.disabled = FALSE, !.loading = FALSE, !.text = SuccessLabel]

\* the 3 s callback
formReverted(st) == [st EXCEPT !.text = IdleLabel]

FormStep(st) ==
    /\ submitDisabled' = st.disabled
    /\ submitLoading' = st.loading
    /\ btnText' = st.text

\* submit event of #contact-form; the browser submits only through an enabled
\* submit control
FormSubmit ==
    /\ ~submitDisabled
    /\ submits < MaxSubmits
    /\ FormStep(formSubmitted(FormState))
    /\ successPending' = Append(successPending, submits + 1)
    /\ submits' = submits + 1
    /\ lastEvent' = "submit"
    /\ UNCHANGED <<variant, headerVars, threw, themeVars, galleryVars, spyVars, revealVars, thumbVars,
                   initVars, revertPending, formFields>>

\* the 2 s timer of the oldest pending submission fires.  It was set at least
\* 4 s after the 3 s timer of the submission before the previous one, so that
\* timer has fired.
SuccessTimer ==
    /\ successPending # << >>
    /\ \A i \in 1..Len(revertPending) : revertPending[i] + 2 > Head(successPending)
    /\ FormStep(formSucceeded(FormState))
    /\ revertPending' = Append(revertPending, Head(successPending))
    /\ successPending' = Tail(successPending)
    /\ formFields' = {}                       \* form.reset()
    /\ lastEvent' = "successTimer"
    /\ UNCHANGED <<variant, headerVars, threw, themeVars, galleryVars, spyVars, revealVars, thumbVars,
                   initVars, submits>>

\* the oldest pending 3 s timer fires
RevertTimer ==
    /\ revertPending # << >>
    /\ FormStep(formReverted(FormState))
    /\ revertPending' = Tail(revertPending)
    /\ lastEvent' = "revertTimer"
    /\ UNCHANGED <<variant, headerVars, threw, themeVars, galleryVars, spyVars, revealVars, thumbVars,
                   initVars, successPending, submits, formFields>>

\* the user fills in a field
FieldInput(f) ==
    /\ f \notin formFields
    /\ formFields' = formFields \cup {f}
    /\ lastEvent' = "input"
    /\ UNCHANGED <<variant, headerVars, threw, themeVars, galleryVars, spyVars, revealVars, thumbVars,
                   initVars, submitDisabled, submitLoading, btnText, successPending,
                   revertPending, submits>>

\* initContactForm on a page with the form, its button and the button text
FormInit ==
    /\ submitDisabled = FALSE
    /\ submitLoading = FALSE
    /\ btnText = MarkupLabel
    /\ successPending = << >>
    /\ revertPending = << >>
    /\ submits = 0
    /\ formFields = {}

\* a page without #contact-form: initContactForm returns at once
FormAbsent == FormInit

(***************************************************************************)
(* INITIALIZATION                                                          *)
(***************************************************************************)
\* the order in which init() calls the components
Components(v) ==
    CASE v = "main" -> <<"header", "mobileNav", "theme", "scroll", "roomGallery",
                         "contactForm", "policyNav", "gallery">>
      [] v = "script3" -> <<"mobileNav", "theme", "header", "scroll", "gallery",
                            "attractionsNav", "policyNav">>
      [] v = "script2" -> <<"mobileNav", "theme", "header", "scroll", "gallery",
                            "attractionsNav", "policyNav", "stickySidebar">>

\* the elements the components of a version look up
ExpectedElements(v) ==
    IF v = "main"
    THEN {"header", "menuButton", "mainNav", "themeToggle", "animated", "thumbnails",
          "contactForm", "submitBtn", "policyLinks", "policySections",
          "filterButtons", "lightbox", "lightboxControls"}
    ELSE {"header", "menuButton", "galleryGrid", "lightbox", "lightboxControls",
          "attractionsNav", "policyNav", "policySidebar"}

Has(dom, el) == el \in dom
Guarded(found) == IF found THEN "wired" ELSE "skipped"

\* main.js initContactForm: submitBtn.querySelector on a missing #submit-btn raises
contactFormOutcome(dom) ==
    IF ~Has(dom, "contactForm") THEN "skipped"
    ELSE IF ~Has(dom, "submitBtn") THEN "threw"
    ELSE "wired"

\* main.js initGalleryPage, script.js 3.0 initGallery: the lookups of
\* .lightbox-close / -prev / -next are used unguarded;
\* script.js 2.1 initGallery: so is #lightbox itself
galleryOutcome(v, dom) ==
    IF v = "main" /\ ~(Has(dom, "filterButtons") /\ Has(dom, "lightbox")) THEN "skipped"
    ELSE IF v # "main" /\ ~Has(dom, "galleryGrid") THEN "skipped"
    ELSE IF v = "script3" /\ ~Has(dom, "lightbox") THEN "skipped"
    ELSE IF ~Has(dom, "lightbox") \/ ~Has(dom, "lightboxControls") THEN "threw"
    ELSE "wired"

\* script.js initAttractionsNav / initPolicyNav: header.offsetHeight on a
\* missing .site-header raises
stickyNavOutcome(dom, nav) ==
    IF ~Has(dom, nav) THEN "skipped"
    ELSE IF ~Has(dom, "header") THEN "threw"
    ELSE "wired"

\* what the initializer of a component does on a page with the elements dom
initOutcome(v, comp, dom) ==
    CASE comp = "header" -> Guarded(Has(dom, "header"))
      [] comp = "mobileNav" ->
            Guarded(Has(dom, "menuButton") /\ (v = "main" => Has(dom, "mainNav")))
      [] comp = "theme" -> IF v = "main" THEN Guarded(Has(dom, "themeToggle")) ELSE "wired"
      [] comp = "scroll" -> IF v = "main" THEN Guarded(Has(dom, "animated")) ELSE "wired"
      [] comp = "roomGallery" -> Guarded(Has(dom, "thumbnails"))
      [] comp = "contactForm" -> contactFormOutcome(dom)
      [] comp = "policyNav" ->
            IF v = "main"
            THEN Guarded(Has(dom, "policyLinks") /\ Has(dom, "policySections"))
            ELSE stickyNavOutcome(dom, "policyNav")
      [] comp = "attractionsNav" -> stickyNavOutcome(dom, "attractionsNav")
      [] comp = "gallery" -> galleryOutcome(v, dom)
      [] comp = "stickySidebar" -> Guarded(Has(dom, "policySidebar"))

\* init() calls the next component; an exception leaves init()
InitStep ==
    /\ initThrew = "none"
    /\ initDone < Len(Components(variant))
    /\ LET comp == Components(variant)[initDone + 1]
           outcome == initOutcome(variant, comp, present)
       IN  /\ initThrew' = IF outcome = "threw" THEN comp ELSE "none"
           /\ wired' = IF outcome = "wired" THEN wired \cup {comp} ELSE wired
           /\ threw' = (outcome = "threw")
    /\ initDone' = initDone + 1
    /\ lastEvent' = "init"
    /\ UNCHANGED <<variant, headerVars, themeVars, galleryVars, spyVars, revealVars, thumbVars,
                   formVars, present>>

\* DOMContentLoaded has fired, init() is about to run; the lightbox controls
\* are children of the lightbox
InitStart ==
    /\ present \in {dom \in SUBSET ExpectedElements(variant) :
                       Has(dom, "lightboxControls") => Has(dom, "lightbox")}
    /\ initDone = 0
    /\ wired = {}
    /\ initThrew = "none"

\* init() is not followed
InitAbsent ==
    /\ present = {}
    /\ initDone = 0
    /\ wired = {}
    /\ initThrew = "none"

(***************************************************************************)
(* HEADER                                                                  *)
(***************************************************************************)
MaxFrames == 2      \* at most this many animation-frame callbacks pending

Threshold == 50
ScrollPositions == {0, Threshold - 1, Threshold, Threshold + 1, 2 * Threshold}
NoRead == -1

\* window.scrollY > 50
scrolledClass(y) == y > Threshold

\* the scroll listener of script.js without the isTicking test
schedules_Always(ticking) == TRUE

\* script.js scroll listener: if (!isTicking)
schedules(ticking) == ~ticking

\* the page is scrolled to another position; its scroll event becomes due
ScrollMove(y) ==
    /\ y \in ScrollPositions
    /\ y # scrollY
    /\ scrollY' = y
    /\ scrollEventDue' = TRUE
    /\ lastEvent' = "scrollMove"
    /\ UNCHANGED <<variant, threw, themeVars, galleryVars, spyVars, revealVars, thumbVars,
                   formVars, initVars, isTicking, pendingFrames, headerScrolled, lastRead>>

\* the scroll listener runs
ScrollEvent ==
    /\ scrollEventDue
    /\ scrollEventDue' = FALSE
    /\ IF variant = "main"
       THEN /\ headerScrolled' = scrolledClass(scrollY)
            /\ lastRead' = scrollY
            /\ UNCHANGED <<isTicking, pendingFrames>>
       ELSE IF schedules(isTicking)
       THEN /\ pendingFrames < MaxFrames
            /\ pendingFrames' = pendingFrames + 1
            /\ isTicking' = TRUE
            /\ UNCHANGED <<headerScrolled, lastRead>>
       ELSE UNCHANGED <<isTicking, pendingFrames, headerScrolled, lastRead>>
    /\ lastEvent' = "scrollEvent"
    /\ UNCHANGED <<variant, threw, themeVars, galleryVars, spyVars, revealVars, thumbVars,
                   formVars, initVars, scrollY>>

\* toggleHeaderClass runs as an animation-frame callback
FrameCallback ==
    /\ pendingFrames > 0
    /\ headerScrolled' = scrolledClass(scrollY)
    /\ lastRead' = scrollY
    /\ isTicking' = FALSE
    /\ pendingFrames' = pendingFrames - 1
    /\ lastEvent' = "frame"
    /\ UNCHANGED <<variant, threw, themeVars, galleryVars, spyVars, revealVars, thumbVars,
                   formVars, initVars, scrollY, scrollEventDue>>

\* the header exists; the page may load at a restored scroll position
HeaderInit ==
    /\ scrollY \in ScrollPositions
    /\ scrollEventDue = FALSE
    /\ isTicking = FALSE
    /\ pendingFrames = 0
    /\ headerScrolled = FALSE
    /\ lastRead = NoRead

\* a page without header: the initializer returns at once
HeaderAbsent ==
    /\ scrollY = 0
    /\ scrollEventDue = FALSE
    /\ isTicking = FALSE
    /\ pendingFrames = 0
    /\ headerScrolled = FALSE
    /\ lastRead = NoRead

(***************************************************************************)
(* SPECIFICATIONS                                                          *)
(***************************************************************************)
InitTheme ==
    /\ variant \in Variants
    /\ lastEvent = "load"
    /\ threw = FALSE
    /\ \E toggle \in BOOLEAN, savedTheme \in {NoTheme} \cup Themes, matches \in BOOLEAN :
          ThemeInitIn(variant, toggle, savedTheme, matches)
    /\ GalleryAbsent
    /\ SpyAbsent
    /\ RevealAbsent
    /\ ThumbsAbsent
    /\ FormAbsent
    /\ InitAbsent
    /\ HeaderAbsent

NextTheme ==
    \/ ThemePageLoad
    \/ ThemeToggleClick
    \/ OsPreferenceChange
    \/ StorageCleared

SpecTheme == InitTheme /\ [][NextTheme]_vars

InitGallery ==
    /\ variant \in Variants
    /\ lastEvent = "load"
    /\ threw = FALSE
    /\ ThemeQuiet
    /\ ThumbsAbsent
    /\ FormAbsent
    /\ InitAbsent
    /\ HeaderAbsent
    /\ SpyAbsent
    /\ RevealAbsent
    /\ \E n \in 0..MaxItems : \E cats \in [1..n -> Categories] : GalleryInitIn(cats)

NextGallery ==
    \/ \E filter \in FilterTags : FilterClick(filter)
    \/ ShowTimer
    \/ \E k \in 1..MaxItems : ItemClick(k)
    \/ NextClick
    \/ PrevClick
    \/ CloseClick
    \/ BackdropClick
    \/ \E key \in Keys : KeyDown(key)

SpecGallery == InitGallery /\ [][NextGallery]_vars

InitSpy ==
    /\ variant \in Variants
    /\ lastEvent = "load"
    /\ threw = FALSE
    /\ ThemeQuiet
    /\ ThumbsAbsent
    /\ FormAbsent
    /\ InitAbsent
    /\ HeaderAbsent
    /\ GalleryAbsent
    /\ RevealAbsent
    /\ SpyInit

NextSpy == \E entries \in Batches(Sections) : SpyIntersection(entries)

SpecSpy == InitSpy /\ [][NextSpy]_vars

InitReveal ==
    /\ variant \in Variants
    /\ lastEvent = "load"
    /\ threw = FALSE
    /\ ThemeQuiet
    /\ ThumbsAbsent
    /\ FormAbsent
    /\ InitAbsent
    /\ HeaderAbsent
    /\ GalleryAbsent
    /\ SpyAbsent
    /\ RevealInit

NextReveal ==
    \/ \E entries \in Batches(fadeObserved) : FadeIntersection(entries)
    \/ \E entries \in Batches(gridObserved) : GridIntersection(entries)

SpecReveal == InitReveal /\ [][NextReveal]_vars

InitThumbs ==
    /\ variant = "main"
    /\ lastEvent = "load"
    /\ threw = FALSE
    /\ ThemeQuiet
    /\ GalleryAbsent
    /\ SpyAbsent
    /\ RevealAbsent
    /\ FormAbsent
    /\ InitAbsent
    /\ HeaderAbsent
    /\ ThumbsInit

NextThumbs ==
    \/ \E t \in Thumbs : ThumbMouseDown(t)
    \/ FadeTimer

SpecThumbs == InitThumbs /\ [][NextThumbs]_vars

InitForm ==
    /\ variant = "main"
    /\ lastEvent = "load"
    /\ threw = FALSE
    /\ ThemeQuiet
    /\ GalleryAbsent
    /\ SpyAbsent
    /\ RevealAbsent
    /\ ThumbsAbsent
    /\ InitAbsent
    /\ HeaderAbsent
    /\ FormInit

NextForm ==
    \/ FormSubmit
    \/ SuccessTimer
    \/ RevertTimer
    \/ \E f \in Fields : FieldInput(f)

SpecForm == InitForm /\ [][NextForm]_vars

\* the event loop runs every timer that is due
SpecFormFair == SpecForm /\ WF_vars(SuccessTimer) /\ WF_vars(RevertTimer)

InitInit ==
    /\ variant \in Variants
    /\ lastEvent = "load"
    /\ threw = FALSE
    /\ ThemeQuiet
    /\ GalleryAbsent
    /\ SpyAbsent
    /\ RevealAbsent
    /\ ThumbsAbsent
    /\ FormAbsent
    /\ HeaderAbsent
    /\ InitStart

NextInit == InitStep

SpecInit == InitInit /\ [][NextInit]_vars

InitHeader ==
    /\ variant \in Variants
    /\ lastEvent = "load"
    /\ threw = FALSE
    /\ ThemeQuiet
    /\ GalleryAbsent
    /\ SpyAbsent
    /\ RevealAbsent
    /\ ThumbsAbsent
    /\ FormAbsent
    /\ InitAbsent
    /\ HeaderInit

NextHeader ==
    \/ \E y \in ScrollPositions : ScrollMove(y)
    \/ ScrollEvent
    \/ FrameCallback

SpecHeader == InitHeader /\ [][NextHeader]_vars



(***************************************************************************)
(* GALLERY FILTER + LIGHTBOX: properties                                   *)
(***************************************************************************)
NavLength == Len(navList(variant, allVisibleItems, Len(itemCat)))
Shown(k) == display[k] # "none"

\* C5: with a navigation list of length N >= 1 and the cursor i in 0..N-1,
\* next leaves the cursor at (i+1) mod N and prev at (i-1+N) mod N (for N = 1
\* both leave it at i), and a run of N next (or N prev) commands over an
\* unchanged list brings the cursor back to where the run started.
C5_WrapAround ==
    /\ [][(NavLength >= 1 /\ currentIndex \in 0..(NavLength - 1))
             => /\ lastCmd' = "next" => currentIndex' = (currentIndex + 1) % NavLength
                /\ lastCmd' = "prev" => currentIndex' = (currentIndex - 1 + NavLength) % NavLength
                /\ (lastCmd' \in {"next", "prev"} /\ NavLength = 1)
                      => currentIndex' = currentIndex]_vars
    /\ []((lastCmd \in {"next", "prev"} /\ runLen = NavLength
              /\ runStart \in 0..(NavLength - 1))
             => currentIndex = runStart)

C5_Witness ==
    /\ lastCmd = "next" /\ runLen = 3 /\ NavLength = 3
    /\ runStart = 1 /\ currentIndex = 1 /\ lightboxActive /\ ~threw

\* C6: with an empty navigation list, next and prev are a no-op: the cursor,
\* the displayed image and the active marker are unchanged and the handler
\* raises no error.
C6_EmptyListGuard ==
    [][(lastCmd' \in {"next", "prev"} /\ NavLength = 0)
          => /\ currentIndex' = currentIndex
             /\ lightboxImg' = lightboxImg
             /\ lightboxActive' = lightboxActive
             /\ ~threw']_vars

\* C7: right after a lightbox command (open, next, prev), with no show timer
\* pending and the lightbox active, the cursor is a valid index into the list
\* of the currently displayed items and the image shown is the displayed item
\* at that index.
C7_CursorInVisibleList ==
    (lightboxActive /\ lastCmd \in {"open", "next", "prev"} /\ pendingShow = << >>)
        => /\ currentIndex \in 0..(Len(updateVisibleItems(display)) - 1)
           /\ lightboxImg = updateVisibleItems(display)[currentIndex + 1]
           /\ Shown(lightboxImg)

\* C8: once a filter was clicked and no show timer is pending, an item is
\* displayed exactly if the last clicked filter is 'all' or equals its category.
C8_FilterShowsMatching ==
    (lastFilter # "none" /\ pendingShow = << >>)
        => \A k \in 1..Len(itemCat) :
              Shown(k) <=> (lastFilter = "all" \/ itemCat[k] = lastFilter)

\* C15: a keydown of Escape, ArrowLeft or ArrowRight while the lightbox is not
\* active changes neither the cursor, nor the image and caption, nor the
\* active marker; while it is active Escape removes the marker and
\* ArrowLeft / ArrowRight move the cursor as prev / next do.
C15_KeysInertWhenInactive ==
    [][lastEvent' \in Keys
          => /\ ~lightboxActive
                  => /\ currentIndex' = currentIndex
                     /\ lightboxImg' = lightboxImg
                     /\ lightboxCaption' = lightboxCaption
                     /\ lightboxActive' = lightboxActive
             /\ (lightboxActive /\ lastEvent' = "Escape") => ~lightboxActive'
             /\ (lightboxActive /\ NavLength >= 1 /\ currentIndex \in 0..(NavLength - 1))
                  => /\ lastEvent' = "ArrowRight"
                          => currentIndex' = (currentIndex + 1) % NavLength
                     /\ lastEvent' = "ArrowLeft"
                          => currentIndex' = (currentIndex - 1 + NavLength) % NavLength]_vars

C15_Witness ==
    /\ lastEvent = "ArrowRight" /\ ~lightboxActive /\ lastCmd = "none"
    /\ lightboxImg = 2 /\ currentIndex = 1 /\ NavLength = 3

\* C16: right after a click on a displayed gallery item the cursor is the
\* position of that item in the navigation list, the lightbox image and
\* caption are that item's, and the lightbox is active, whatever filter was
\* selected before.
C16_OpenShowsClickedItem ==
    lastEvent = "itemClick"
        => /\ lightboxActive /\ ~threw
           /\ lightboxImg = clickedItem
           /\ lightboxCaption = clickedItem
           /\ currentIndex \in 0..(NavLength - 1)
           /\ navList(variant, allVisibleItems, Len(itemCat))[currentIndex + 1] = clickedItem

C16_Witness ==
    /\ lastEvent = "itemClick" /\ variant = "script3" /\ lastFilter = "dining"
    /\ clickedItem = 3 /\ currentIndex = 0 /\ lightboxImg = 3 /\ lightboxActive

\* C20: once a filter was clicked, exactly the filter control clicked last
\* carries 'active', and with no show timer pending the displayed items are
\* those that control's tag selects, whatever was selected before.
C20_FilterExclusiveActive ==
    lastFilter # "none"
        => /\ filterActive = {lastFilter}
           /\ pendingShow = << >>
                => \A k \in 1..Len(itemCat) : Shown(k) <=> Matches(lastFilter, itemCat[k])

(***************************************************************************)
(* SCROLL-SPY and REVEAL: properties                                       *)
(***************************************************************************)
LinksOf(section) == {l \in Links : linkHref[l] = section}
IntersectingAt == {i \in 1..Len(spyBatch) : IsIntersecting(spyBatch[i])}
LastIntersecting == CHOOSE i \in IntersectingAt : \A j \in IntersectingAt : j <= i

\* C9 as stated: right after an intersection callback, for every entry of the
\* batch that reported its section Sk intersecting, link Lk is active and
\* every other link is inactive.
C9_EveryIntersectingActive ==
    lastEvent = "spyCallback"
        => \A i \in IntersectingAt : spyActive = LinksOf(Target(spyBatch[i]))

\* C9 amended: right after an intersection callback that reported at least one
\* section intersecting, the link of the last intersecting entry of the batch
\* is active and every other link is inactive (for a batch with a single
\* intersecting entry Sk that is Lk).
C9_LastIntersectingActive ==
    (lastEvent = "spyCallback" /\ IntersectingAt # {})
        => spyActive = LinksOf(Target(spyBatch[LastIntersecting]))

C9_Witness ==
    /\ lastEvent = "spyCallback" /\ Len(spyBatch) = 3
    /\ IntersectingAt = {1, 2}
    /\ Target(spyBatch[1]) = 3 /\ Target(spyBatch[2]) = 1
    /\ spyActive = {1}

\* C14: when one callback batch reports several sections as intersecting,
\* exactly one link is active after the callback, the one of the last
\* intersecting entry in delivery order, and the link of every earlier
\* intersecting entry is inactive.
C14_LastEntryWins ==
    (lastEvent = "spyCallback" /\ Cardinality(IntersectingAt) >= 2)
        => /\ Cardinality(spyActive) = 1
           /\ \A i \in IntersectingAt :
                 (LinksOf(Target(spyBatch[i])) \subseteq spyActive)
                     <=> (\A j \in IntersectingAt : j <= i)

C14_Witness ==
    /\ lastEvent = "spyCallback" /\ Len(spyBatch) = 2
    /\ IntersectingAt = {1, 2}
    /\ Target(spyBatch[1]) = 2 /\ Target(spyBatch[2]) = 3
    /\ spyActive = {3}

\* C10: an element is revealed at most once; it carries the visible class
\* exactly when it is no longer observed (class added and observation
\* cancelled in the same callback); afterwards no callback removes the class,
\* adds it again or observes the element again.  The same holds of the
\* .grid-stagger containers and the reveal of their children.
C10_RevealOneShot ==
    /\ [](/\ \A e \in FadeElements : addCalls[e] <= 1
          /\ \A g \in Grids : gridCalls[g] <= 1
          /\ isVisible = FadeElements \ fadeObserved
          /\ (variant # "main" => gridRevealed = Grids \ gridObserved)
          /\ (lastEvent = "fadeCallback"
                => revealBatch \subseteq (isVisible \ fadeObserved))
          /\ (lastEvent = "gridCallback"
                => revealBatch \subseteq (gridRevealed \ gridObserved)))
    /\ [][/\ isVisible \subseteq isVisible'
          /\ fadeObserved' \subseteq fadeObserved
          /\ gridRevealed \subseteq gridRevealed'
          /\ gridObserved' \subseteq gridObserved
          /\ \A e \in isVisible : addCalls'[e] = addCalls[e]
          /\ \A g \in gridRevealed : gridCalls'[g] = gridCalls[g]]_vars

C10_Witness ==
    /\ lastEvent = "fadeCallback"
    /\ isVisible = {1, 2} /\ fadeObserved = {3}
    /\ revealBatch = {2} /\ addCalls[1] = 1 /\ addCalls[2] = 1 /\ addCalls[3] = 0

(***************************************************************************)
(* THEME: properties                                                       *)
(***************************************************************************)

\* C1: on a page with the theme toggle, loaded with no stored 'theme' value
\* and with no click on the toggle since, the applied data-theme equals the
\* live OS preference, whatever OS-preference changes happened since the load.
C1_ThemeFollowsOs ==
    (hasToggle /\ storedAtLoad = NoTheme /\ ~clickedSinceLoad)
        => dataTheme = OsTheme(prefersDark)

\* C2: right after initialization the root data-theme is the value stored at
\* load when one was stored, and the OS value otherwise (main.js resolves a
\* theme only on pages that have the toggle).
C2_InitialTheme ==
    (lastEvent = "load" /\ (variant = "main" => hasToggle))
        => dataTheme = (IF storedAtLoad \in Themes THEN storedAtLoad
                        ELSE IF prefersDark THEN "dark" ELSE "light")

C2_Witness ==
    /\ lastEvent = "load" /\ hasToggle
    /\ storedAtLoad = "light" /\ prefersDark /\ dataTheme = "light"

\* C3: an OS-preference change that fires while a 'theme' value is stored
\* changes neither the applied data-theme nor the stored value.
C3_StoredChoiceWins ==
    [][(lastEvent' = "osChange" /\ stored # NoTheme)
          => (dataTheme' = dataTheme /\ stored' = stored)]_vars

C3_Witness ==
    /\ lastEvent = "osChange" /\ clickedSinceLoad
    /\ stored = "light" /\ dataTheme = "light" /\ prefersDark

\* C4: a click on the theme toggle flips the applied theme and stores the
\* new value, so stored = applied right after it; the second of two
\* consecutive clicks restores the theme applied before the first.
C4_ToggleFlipsAndStores ==
    [][lastEvent' = "themeClick"
          => /\ dataTheme \in Themes
             /\ dataTheme' \in Themes \ {dataTheme}
             /\ stored' = dataTheme'
             /\ (lastEvent = "themeClick" => dataTheme' = themeBefore)]_vars

C4_Witness ==
    /\ lastEvent = "themeClick" /\ themeBefore = "dark"
    /\ dataTheme = "light" /\ stored = "light" /\ storedAtLoad = "dark"

\* C13: the value stored under 'theme' is absent or one of 'light' and
\* 'dark', and the data-theme the script applied is one of 'light' and 'dark'
\* (main.js applies one only on pages that have the toggle).
C13_ThemeInDomain ==
    /\ stored \in {NoTheme} \cup Themes
    /\ (variant = "main" => hasToggle) => dataTheme \in Themes

C13_Witness ==
    /\ lastEvent = "osChange" /\ clickedSinceLoad
    /\ storedAtLoad = "light" /\ stored = "dark" /\ dataTheme = "dark"


(***************************************************************************)
(* PROPERTIES OF THE ROOM THUMBNAILS                                       *)
(***************************************************************************)
\* the full-size sources the markup associates with thumbnail t
FullSizeWebp(t) == <<t, "full-webp">>
FullSizeJpg(t) == IF fullJpgGiven THEN <<t, "full-jpg">> ELSE <<t, "full-webp as .jpg">>
ActiveIn(active, g) == active \cap ThumbsOf(g)

\* C12: a mousedown on an inactive thumbnail whose target image exists leaves
\* the clicked thumbnail as the only active one of its group and the target
\* image at opacity 0 with a fade timer scheduled; when that timer fires, the
\* image's webp source, jpeg source and src are the thumbnail's full-size
\* sources and the opacity is 1.
C12_ThumbnailSwitch ==
    [][ /\ (/\ lastEvent' = "thumbDown"
            /\ lastThumb' \notin thumbActive
            /\ GalleryOf(lastThumb') \in imgPresent)
           => /\ ActiveIn(thumbActive', GalleryOf(lastThumb')) = {lastThumb'}
              /\ mainImage'[GalleryOf(lastThumb')].opacity = "0"
              /\ pendingFade' = Append(pendingFade, lastThumb')
        /\ lastEvent' = "fadeTimer"
           => /\ mainImage'[GalleryOf(lastThumb')].src = FullSizeJpg(lastThumb')
              /\ hasSources =>
                    /\ mainImage'[GalleryOf(lastThumb')].webp = FullSizeWebp(lastThumb')
                    /\ mainImage'[GalleryOf(lastThumb')].jpg = FullSizeJpg(lastThumb')
              /\ mainImage'[GalleryOf(lastThumb')].opacity = "1"
      ]_vars

\* a switch has completed: the timer of the active thumbnail has fired on a
\* page whose thumbnails give no jpeg name
C12_Witness ==
    /\ lastEvent = "fadeTimer"
    /\ hasSources
    /\ ~fullJpgGiven
    /\ ActiveIn(thumbActive, GalleryOf(lastThumb)) = {lastThumb}
    /\ mainImage[GalleryOf(lastThumb)].webp = FullSizeWebp(lastThumb)
    /\ mainImage[GalleryOf(lastThumb)].opacity = "1"

\* C17: a mousedown on a thumbnail that is already active, or whose target
\* image is missing, changes no 'active' class, leaves every image's opacity
\* and sources alone and schedules no fade timer.
C17_NoOpWhenActiveOrNoTarget ==
    [][ (/\ lastEvent' = "thumbDown"
         /\ (lastThumb' \in thumbActive \/ GalleryOf(lastThumb') \notin imgPresent))
        => UNCHANGED <<thumbActive, mainImage, pendingFade>>
      ]_vars

\* the active thumbnail of a gallery whose image exists was pressed while no
\* timer was pending
C17_Witness ==
    /\ lastEvent = "thumbDown"
    /\ lastThumb \in thumbActive
    /\ GalleryOf(lastThumb) \in imgPresent
    /\ pendingFade = << >>

\* C18: a mousedown or a fade timer of a thumbnail changes the 'active'
\* markers and the image only of that thumbnail's own gallery, and every
\* gallery has at most one active thumbnail in every reachable state.
C18_GalleriesIndependent ==
    /\ [][ lastEvent' \in {"thumbDown", "fadeTimer"}
           => \A g \in Galleries \ {GalleryOf(lastThumb')} :
                 /\ ActiveIn(thumbActive', g) = ActiveIn(thumbActive, g)
                 /\ mainImage'[g] = mainImage[g]
         ]_vars
    /\ [](\A g \in Galleries : Cardinality(ActiveIn(thumbActive, g)) <= 1)

\* a thumbnail was activated while the other gallery had its own active
\* thumbnail and an already switched image
C18_Witness ==
    /\ lastEvent = "thumbDown"
    /\ pendingFade = <<lastThumb>>
    /\ \E g \in Galleries \ {GalleryOf(lastThumb)} :
          /\ ActiveIn(thumbActive, g) # {}
          /\ mainImage[g].opacity = "1"

(***************************************************************************)
(* PROPERTIES OF THE CONTACT FORM                                          *)
(***************************************************************************)
FormIdle == ~submitDisabled /\ ~submitLoading /\ btnText = IdleLabel
TimersDone == successPending = << >> /\ revertPending = << >>

\* C19: a submit leaves the control disabled and loading; the 2 s timer
\* leaves it enabled, not loading and showing the success text; the 3 s timer
\* leaves the idle label.  The control is disabled exactly while it is
\* loading, the form is idle whenever a submission has been made and no timer
\* is pending, and with the timers firing every submission leads to the idle
\* state.
C19_SubmissionSequence ==
    /\ [](submitDisabled <=> submitLoading)
    /\ [](lastEvent = "submit" => submitDisabled /\ submitLoading)
    /\ [](lastEvent = "successTimer"
             => ~submitDisabled /\ ~submitLoading /\ btnText = SuccessLabel)
    /\ [](lastEvent = "revertTimer" => btnText = IdleLabel)
    /\ [](submits >= 1 /\ TimersDone => FormIdle)
    /\ (submits >= 1 ~> (TimersDone /\ FormIdle))

\* two submissions have run to the end, the second made while the first
\* success text was still shown
C19_Witness ==
    /\ submits = 2
    /\ lastEvent = "revertTimer"
    /\ TimersDone
    /\ FormIdle

(***************************************************************************)
(* PROPERTIES OF THE INITIALIZATION                                        *)
(***************************************************************************)
InitEnded == initThrew # "none" \/ initDone = Len(Components(variant))

\* C11: whatever subset of the expected elements is missing, no component
\* raises during init(), and when init() has ended every component whose own
\* elements are all present has been set up.
C11_MissingMarkupNeverHalts ==
    /\ initThrew = "none"
    /\ InitEnded =>
          \A i \in 1..Len(Components(variant)) :
             initOutcome(variant, Components(variant)[i], present) = "wired"
                => Components(variant)[i] \in wired

(***************************************************************************)
(* PROPERTIES OF THE HEADER                                                *)
(***************************************************************************)
\* C21: in script.js at most one frame callback is pending and isTicking
\* tells whether one is; a scroll event arriving while one is pending
\* schedules nothing; whenever none is pending after a class update the
\* header carries 'scrolled' iff the position read by that update was > 50;
\* and once the last scroll event has been handled and no callback is
\* pending the class reflects the current scroll position.  In main.js the
\* class equals scrollY > 50 right after every scroll event.
C21_HeaderScrolledState ==
    /\ [](variant # "main" => pendingFrames <= 1 /\ (isTicking <=> pendingFrames = 1))
    /\ [][ (lastEvent' = "scrollEvent" /\ pendingFrames >= 1)
           => pendingFrames' = pendingFrames ]_vars
    /\ []((pendingFrames = 0 /\ lastRead # NoRead)
             => (headerScrolled <=> lastRead > 50))
    /\ []((~scrollEventDue /\ pendingFrames = 0 /\ lastRead # NoRead)
             => (headerScrolled <=> scrollY > 50))
    /\ []((variant = "main" /\ lastEvent = "scrollEvent")
             => (headerScrolled <=> scrollY > 50))

\* script.js: the frame callback has run after the last scroll event and
\* found the page scrolled by 51 px
C21_Witness ==
    /\ variant # "main"
    /\ lastEvent = "frame"
    /\ ~scrollEventDue
    /\ pendingFrames = 0
    /\ scrollY = 51
    /\ headerScrolled

(***************************************************************************)
(* RAPID SELECTION: properties                                             *)
(***************************************************************************)
\* C22: in main.js, when the last pending 1 ms show timer has fired, the
\* displayed items are exactly those matching the filter selected last,
\* whatever filters were clicked while earlier timers were pending.
C22_LastFilterWinsAfterTimers ==
    [][ (variant = "main" /\ lastEvent' = "showTimer" /\ pendingShow' = << >>)
        => \A k \in 1..Len(itemCat) :
              (display'[k] # "none") <=> (lastFilter' = "all" \/ itemCat[k] = lastFilter')
      ]_vars

\* C23: once every 200 ms timer has fired, the main image of a gallery in
\* which thumbnails were activated shows the sources of the thumbnail that is
\* marked active in that gallery, at opacity 1, however many activations
\* overlapped.
C23_ImageShowsActiveThumb ==
    \A g \in Galleries :
       (pendingFade = << >> /\ mainImage[g] # MarkupImage)
          => /\ mainImage[g].opacity = "1"
             /\ \E t \in Thumbs :
                   /\ ActiveIn(thumbActive, g) = {t}
                   /\ mainImage[g].src = FullSizeJpg(t)
                   /\ hasSources => /\ mainImage[g].webp = FullSizeWebp(t)
                                    /\ mainImage[g].jpg = FullSizeJpg(t)

\* two thumbnails of gallery 1 were activated before the first timer fired,
\* and both timers have fired
C23_Witness ==
    /\ fadeOverlap
    /\ lastEvent = "fadeTimer"
    /\ pendingFade = << >>
    /\ lastThumb = 3
    /\ thumbActive = {3}
    /\ mainImage[1].src = FullSizeJpg(3)
    /\ mainImage[1].opacity = "1"

\* C24: when a 3 s timer turns a displayed success text into the idle label,
\* it is the timer set by the submission whose success text is displayed
\* (the submission that succeeded last).
C24_RevertByOwnTimer ==
    [][ (lastEvent' = "revertTimer" /\ btnText = SuccessLabel)
        => Head(revertPending) = submits - Len(successPending)
      ]_vars

\* C25: an intersection callback whose batch has no intersecting entry
\* changes no nav link; and once a section has intersected, exactly the link
\* of the section of the most recently processed intersecting entry is
\* active, so at most one link is active in every later state.
C25_KeepsLastHighlight ==
    /\ [][ (lastEvent' = "spyCallback"
            /\ \A i \in 1..Len(spyBatch') : ~IsIntersecting(spyBatch'[i]))
           => spyActive' = spyActive ]_vars
    /\ [](lastSpySection # 0
             => /\ Cardinality(spyActive) <= 1
                /\ spyActive = LinksOf(lastSpySection))

\* section 2 intersected earlier; the last batch only reported sections
\* leaving, section 2 among them, and link 2 is still the active one
C25_Witness ==
    /\ lastEvent = "spyCallback"
    /\ spyBatch # << >>
    /\ IntersectingAt = {}
    /\ \E i \in 1..Len(spyBatch) : Target(spyBatch[i]) = 2
    /\ lastSpySection = 2
    /\ spyActive = {2}

=============================================================================
